---- MODULE Spec2Model ----
(***************************************************************************)
(* Model of geo_agent: a crew of four sequential tasks (geocode, buffer,   *)
(* filter, render map) whose tools are the functions of tools.py, working  *)
(* on the process-wide GeoDataFrame dataset_gdf.                           *)
(*                                                                         *)
(* Geometry is modelled on an integer grid with one unit per kilometre:    *)
(* a dataset feature is an axis-aligned box, a buffer is a disc, and       *)
(* intersects is the boundary-inclusive predicate "share a point".         *)
(* JSON texts are modelled by the value they parse to; a text that is not  *)
(* JSON is a value of kind "text".                                         *)
(***************************************************************************)
EXTENDS Integers, Sequences, FiniteSets, TLC

\* ---------------------------------------------------------------- bounds
MaxFeatures == 2
MaxRadius == 2
MaxQueries == 2

\* ------------------------------------------------------------- constants
\* radius_km * 1000: kilometres to metres
KmToM == 1000
\* "+units=m" of the local azimuthal equidistant projection: metres per grid unit
MetresPerUnit == 1000
\* false easting / northing of the dataset's native UTM 17S system
FalseEasting == 500000
FalseNorthing == 10000000

\* ------------------------------------------------------------ text model
\* str.strip()
Strip(s) ==
    CASE s = " santa " -> "santa"
      [] OTHER -> s

\* str.upper()
Upper(s) ==
    CASE s = "santa" -> "SANTA"
      [] s = " santa " -> " SANTA "
      [] s = "Lima" -> "LIMA"
      [] OTHER -> s

\* place_name.lower().replace(" ", "_") + "_map.html"
MapFileName(place_name) ==
    CASE place_name = "Santa, Ancash, Peru" -> "santa,_ancash,_peru_map.html"
      [] place_name = "Lima, Peru" -> "lima,_peru_map.html"
      [] OTHER -> "map_map.html"

\* ------------------------------------------------------------ JSON model
Json(o) == [kind |-> "json", obj |-> o]
Text(t) == [kind |-> "text", text |-> t]
NoOutput == [kind |-> "none"]

HasKey(o, k) == k \in DOMAIN o

Return(v) == [kind |-> "return", value |-> v]
Raise(e) == [kind |-> "raise", exc |-> e]

\* --------------------------------------------------------- the dataset
Cell(dt, t) == [dtype |-> dt, text |-> t]

Box(xlo, xhi, ylo, yhi) == [xlo |-> xlo, xhi |-> xhi, ylo |-> ylo, yhi |-> yhi]

\* The rows a dataset file may hold (geometry in geographic grid units).
FeaturePool ==
    { [geometry |-> Box(6, 7, 5, 5), PROVI |-> Cell("object", "SANTA"),
       CONCESION |-> Cell("object", "ALFA"), HASDATUM |-> Cell("float64", "100.0")],
      [geometry |-> Box(8, 9, 8, 9), PROVI |-> Cell("object", "LIMA"),
       CONCESION |-> Cell("object", "BETA"), HASDATUM |-> Cell("float64", "250.5")],
      [geometry |-> Box(4, 6, 4, 6), PROVI |-> Cell("object", "SANTA"),
       CONCESION |-> Cell("object", "GAMA"), HASDATUM |-> Cell("float64", "75.25")] }

DatasetCrs == {"EPSG:4326", "EPSG:32717", "None"}

\* geographic grid units -> coordinates of the file's own system
FromGeographic(crs, g) ==
    IF crs = "EPSG:32717"
    THEN Box(g.xlo * MetresPerUnit + FalseEasting, g.xhi * MetresPerUnit + FalseEasting,
             g.ylo * MetresPerUnit + FalseNorthing, g.yhi * MetresPerUnit + FalseNorthing)
    ELSE g

\* the inverse: coordinates of system crs -> geographic grid units
ToGeographic(crs, g) ==
    IF crs = "EPSG:32717"
    THEN Box((g.xlo - FalseEasting) \div MetresPerUnit, (g.xhi - FalseEasting) \div MetresPerUnit,
             (g.ylo - FalseNorthing) \div MetresPerUnit, (g.yhi - FalseNorthing) \div MetresPerUnit)
    ELSE g

\* gpd.read_file: rows get the index 0, 1, ... and the file's crs
ReadFile(crs, feats) ==
    [crs |-> crs,
     rows |-> [i \in 1..Len(feats) |->
                 [index |-> i - 1,
                  geometry |-> FromGeographic(crs, feats[i].geometry),
                  PROVI |-> feats[i].PROVI,
                  CONCESION |-> feats[i].CONCESION,
                  HASDATUM |-> feats[i].HASDATUM]]]

FeatureSeqs == UNION {[1..n -> FeaturePool] : n \in 0..MaxFeatures}

\* ------------------------------------------------------ GeoDataFrame ops
RECURSIVE SelectByMask(_, _)
\* rows kept by a boolean mask, in the frame's order
SelectByMask(rows, mask) ==
    IF rows = <<>> THEN <<>>
    ELSE (IF Head(mask) THEN <<Head(rows)>> ELSE <<>>)
         \o SelectByMask(Tail(rows), Tail(mask))

\* mutant: boolean indexing hands out a view of the frame it was taken from
GetItemMaskView(frame, mask) ==
    [crs |-> frame.crs, rows |-> SelectByMask(frame.rows, mask), is_view |-> TRUE]

\* dataset[mask]: boolean indexing returns a new frame (a copy)
GetItemMask(frame, mask) ==
    [crs |-> frame.crs, rows |-> SelectByMask(frame.rows, mask), is_view |-> FALSE]

\* mutant: the reprojection hands back the axes swapped (latitude as x)
ToCrsSwappedAxes(frame) ==
    [crs |-> "EPSG:4326",
     rows |-> [i \in 1..Len(frame.rows) |->
                 [frame.rows[i] EXCEPT !.geometry =
                     LET g == ToGeographic(frame.crs, @)
                     IN  Box(g.ylo, g.yhi, g.xlo, g.xhi)]]]

\* GeoDataFrame.to_crs("EPSG:4326"): a new frame; the caller has checked crs # "None"
ToCrs(frame) ==
    [crs |-> "EPSG:4326",
     rows |-> [i \in 1..Len(frame.rows) |->
                 [frame.rows[i] EXCEPT !.geometry = ToGeographic(frame.crs, @)]]]

\* column.astype(str) on one cell
AsTypeStr(cell) == Cell("object", cell.text)

\* for col in filtered.columns: if col != "geometry": filtered[col] = filtered[col].astype(str)
StringifyRow(r) ==
    [r EXCEPT !.PROVI = AsTypeStr(@), !.CONCESION = AsTypeStr(@), !.HASDATUM = AsTypeStr(@)]

StringifyRows(rows) == [i \in 1..Len(rows) |-> StringifyRow(rows[i])]

\* a cell as to_json() writes it: text columns as JSON strings, numeric ones as numbers
JsonCell(cell) ==
    [type |-> IF cell.dtype = "object" THEN "string" ELSE "number", text |-> cell.text]

\* one row as a GeoJSON feature: its index as id, its columns as properties
JsonFeature(row) ==
    [id |-> row.index,
     type |-> "Feature",
     properties |-> [PROVI |-> JsonCell(row.PROVI),
                     CONCESION |-> JsonCell(row.CONCESION),
                     HASDATUM |-> JsonCell(row.HASDATUM)],
     geometry |-> row.geometry]

\* mutant: a frame without rows is reported as an error
ToJsonEmptyIsError(rows) ==
    IF rows = <<>>
    THEN [error |-> <<"no matching features">>]
    ELSE [type |-> "FeatureCollection",
          features |-> [i \in 1..Len(rows) |-> JsonFeature(rows[i])]]

\* GeoDataFrame.to_json()
ToJson(rows) ==
    [type |-> "FeatureCollection",
     features |-> [i \in 1..Len(rows) |-> JsonFeature(rows[i])]]

\* ---------------------------------------------------------------- geometry
Max(a, b) == IF a >= b THEN a ELSE b

\* Point.buffer(r) in the local projection, projected back: a disc, empty for r <= 0
Disc(cx, cy, r_m) ==
    IF r_m > 0
    THEN [type |-> "Polygon", empty |-> FALSE, cx |-> cx, cy |-> cy, r |-> r_m \div MetresPerUnit]
    ELSE [type |-> "Polygon", empty |-> TRUE, cx |-> 0, cy |-> 0, r |-> 0]

\* geometry.intersects(buffer): box and disc share a point, boundary included
Intersects(box, disc) ==
    /\ ~disc.empty
    /\ LET dx == Max(Max(box.xlo - disc.cx, disc.cx - box.xhi), 0)
           dy == Max(Max(box.ylo - disc.cy, disc.cy - box.yhi), 0)
       IN  dx * dx + dy * dy <= disc.r * disc.r

\* ------------------------------------------------------------------ tools
\* what geolocator.geocode can answer: a location, None, or a service error
Locations ==
    { [latitude |-> 5, longitude |-> 5, address |-> "Santa, Ancash, Peru"],
      [latitude |-> 1, longitude |-> 1, address |-> "Lima, Peru"] }
GeocoderAnswers ==
    {[kind |-> "location", location |-> l] : l \in Locations}
    \cup {[kind |-> "None"], [kind |-> "unavailable"]}

UserInputs == {"SANTA", " santa ", "Lima", "CUSCO"}
Radii == (-1)..MaxRadius

geocode_from_dataset_tool(gdf, user_input, radius_km, answer) ==
    LET match == SelectSeq(gdf.rows,
                           LAMBDA r : Upper(r.PROVI.text) = Upper(Strip(user_input)))
    IN  IF match = <<>>
        THEN Return(Json([error |-> <<"No matching province for", user_input>>]))
        ELSE LET province_name == match[1].PROVI.text
             IN  CASE answer.kind = "unavailable" -> Raise("GeocoderUnavailable")
                   [] answer.kind = "None" ->
                        Return(Json([error |-> <<"Geocoding failed for", province_name>>]))
                   [] OTHER ->
                        Return(Json([latitude |-> answer.location.latitude,
                                     longitude |-> answer.location.longitude,
                                     display_name |-> answer.location.address,
                                     address |-> province_name,
                                     radius_km |-> radius_km]))

buffer_point_tool(geocode_json) ==
    IF geocode_json.kind # "json" THEN Raise("JSONDecodeError")
    ELSE LET geocode == geocode_json.obj
         IN  IF ~HasKey(geocode, "latitude") THEN Raise("KeyError: 'latitude'")
             ELSE IF ~HasKey(geocode, "longitude") THEN Raise("KeyError: 'longitude'")
             ELSE IF ~HasKey(geocode, "radius_km") THEN Raise("KeyError: 'radius_km'")
             ELSE LET lat == geocode.latitude
                      lon == geocode.longitude
                      radius_km == geocode.radius_km
                      buffer == Disc(lon, lat, radius_km * KmToM)
                  IN  Return(Json([type |-> "FeatureCollection",
                                   features |-> << [type |-> "Feature",
                                                    properties |-> [radius_km |-> radius_km],
                                                    geometry |-> buffer] >>]))

\* The tool's return value, and dataset_gdf as the call leaves it.
filter_dataset_tool(gdf, json_buffer) ==
    LET Error(e) == [ret |-> Return(Json([error |-> <<e>>])), gdf |-> gdf]
    IN  IF json_buffer.kind # "json" THEN Error("Expecting value: line 1 column 1 (char 0)")
        ELSE LET buffer_geojson == json_buffer.obj
             IN  IF ~HasKey(buffer_geojson, "features") THEN Error("'features'")
                 ELSE IF buffer_geojson.features = <<>> THEN Error("list index out of range")
                 ELSE IF ~HasKey(buffer_geojson.features[1], "geometry") THEN Error("'geometry'")
                 ELSE IF gdf.crs = "None"
                      THEN Error("Cannot transform naive geometries.  Please set a crs on the object first.")
                 ELSE
                   LET buffer_geom == buffer_geojson.features[1].geometry
                       aliased == gdf.crs = "EPSG:4326"
                       dataset == IF aliased THEN gdf ELSE ToCrs(gdf)
                       mask == [i \in 1..Len(dataset.rows) |->
                                  Intersects(dataset.rows[i].geometry, buffer_geom)]
                       filtered == GetItemMask(dataset, mask)
                       stringified == StringifyRows(filtered.rows)
                       written == {stringified[j].index : j \in 1..Len(stringified)}
                   IN  [ret |-> Return(Json(ToJson(stringified))),
                        gdf |-> IF filtered.is_view /\ aliased
                                THEN [gdf EXCEPT !.rows =
                                        [i \in 1..Len(gdf.rows) |->
                                           IF gdf.rows[i].index \in written
                                           THEN StringifyRow(gdf.rows[i]) ELSE gdf.rows[i]]]
                                ELSE gdf]

NoMap == [saved |-> FALSE]

\* The tool's return value, and the map file it saved (if it got that far).
render_map_tool(geocode_json, buffer_geojson, matches_geojson) ==
    LET Fail(e) == [ret |-> Raise(e), map |-> NoMap]
    IN  IF geocode_json.kind # "json" \/ buffer_geojson.kind # "json"
           \/ matches_geojson.kind # "json"
        THEN Fail("JSONDecodeError")
        ELSE LET center == geocode_json.obj
                 buffer_fc == buffer_geojson.obj
                 matches_fc == matches_geojson.obj
             IN  IF ~HasKey(center, "latitude") THEN Fail("KeyError: 'latitude'")
                 ELSE IF ~HasKey(center, "longitude") THEN Fail("KeyError: 'longitude'")
                 ELSE IF ~HasKey(buffer_fc, "type") THEN Fail("KeyError: 'type'")
                 ELSE
                   LET place_name == IF HasKey(center, "display_name")
                                     THEN center.display_name ELSE "map"
                       output_file == MapFileName(place_name)
                       overlay == HasKey(matches_fc, "features") /\ matches_fc.features # <<>>
                   IN  [ret |-> Return(Text(output_file)),
                        map |-> [saved |-> TRUE,
                                 file |-> output_file,
                                 marker |-> <<center.latitude, center.longitude>>,
                                 layers |-> {"Search Buffer"} \cup
                                            (IF overlay THEN {"Mining Concessions"} ELSE {})]]

\* ------------------------------------------------------------- the crew
VARIABLES
    dataset_gdf,   \* the module-level GeoDataFrame of tools.py
    loaded,        \* history: dataset_gdf as read_file returned it
    pc,            \* the task the crew runs next, "finished" or "crashed"
    queries,       \* kickoffs so far
    started,       \* history: the tasks started in this kickoff, in order
    raised,        \* history: the tasks of this kickoff whose tool raised
    geocode_out,   \* output of task_geocode (output/jsons/geocode_result.json)
    buffer_out,    \* output of task_buffer (output/jsons/buffer_geojson.json)
    filter_out,    \* output of task_filter (output/jsons/filtered_concessions.json)
    render_out,    \* output of task_render_map
    map_html       \* the map file render_map_tool saved

vars == <<dataset_gdf, loaded, pc, queries, started, raised,
          geocode_out, buffer_out, filter_out, render_out, map_html>>

\* tasks=[task_geocode, task_buffer, task_filter, task_render_map]
Tasks == <<"task_geocode", "task_buffer", "task_filter", "task_render_map">>

\* What a task hands on when its tool raised and the crew went on: the agent's own
\* answer, which is the exception text, an error object, or (for the buffer task,
\* asked to "return only the GeoJSON") a FeatureCollection without features.
AgentAnswerAfterFailure(task, exc) ==
    {Text(exc), Json([error |-> <<exc>>])}
    \cup (IF task = "task_buffer"
          THEN {Json([type |-> "FeatureCollection", features |-> <<>>])}
          ELSE {})

\* A task's possible ends: its tool's return value goes to the next task; an
\* exception either leaves kickoff (the run crashes) or is answered by the agent.
TaskEnds(task, res, next) ==
    IF res.kind = "return"
    THEN {[out |-> res.value, pc |-> next, raised |-> FALSE]}
    ELSE {[out |-> [kind |-> "exception", exc |-> res.exc], pc |-> "crashed", raised |-> TRUE]}
         \cup {[out |-> a, pc |-> next, raised |-> TRUE] :
                 a \in AgentAnswerAfterFailure(task, res.exc)}

Init ==
    /\ \E crs \in DatasetCrs, feats \in FeatureSeqs :
         /\ dataset_gdf = ReadFile(crs, feats)
         /\ loaded = ReadFile(crs, feats)
    /\ pc = "task_geocode"
    /\ queries = 1
    /\ started = <<>>
    /\ raised = {}
    /\ geocode_out = NoOutput
    /\ buffer_out = NoOutput
    /\ filter_out = NoOutput
    /\ render_out = NoOutput
    /\ map_html = NoMap

TaskGeocode ==
    /\ pc = "task_geocode"
    /\ \E user_input \in UserInputs, radius_km \in Radii, answer \in GeocoderAnswers :
         \E e \in TaskEnds("task_geocode",
                           geocode_from_dataset_tool(dataset_gdf, user_input, radius_km, answer),
                           "task_buffer") :
            /\ geocode_out' = e.out
            /\ pc' = e.pc
            /\ raised' = IF e.raised THEN raised \cup {"task_geocode"} ELSE raised
    /\ started' = Append(started, "task_geocode")
    /\ UNCHANGED <<dataset_gdf, loaded, queries, buffer_out, filter_out, render_out, map_html>>

TaskBuffer ==
    /\ pc = "task_buffer"
    /\ \E e \in TaskEnds("task_buffer", buffer_point_tool(geocode_out), "task_filter") :
         /\ buffer_out' = e.out
         /\ pc' = e.pc
         /\ raised' = IF e.raised THEN raised \cup {"task_buffer"} ELSE raised
    /\ started' = Append(started, "task_buffer")
    /\ UNCHANGED <<dataset_gdf, loaded, queries, geocode_out, filter_out, render_out, map_html>>

TaskFilter ==
    /\ pc = "task_filter"
    /\ LET call == filter_dataset_tool(dataset_gdf, buffer_out)
       IN  /\ dataset_gdf' = call.gdf
           /\ \E e \in TaskEnds("task_filter", call.ret, "task_render_map") :
                /\ filter_out' = e.out
                /\ pc' = e.pc
                /\ raised' = IF e.raised THEN raised \cup {"task_filter"} ELSE raised
    /\ started' = Append(started, "task_filter")
    /\ UNCHANGED <<loaded, queries, geocode_out, buffer_out, render_out, map_html>>

TaskRenderMap ==
    /\ pc = "task_render_map"
    /\ LET call == render_map_tool(geocode_out, buffer_out, filter_out)
       IN  /\ map_html' = call.map
           /\ \E e \in TaskEnds("task_render_map", call.ret, "finished") :
                /\ render_out' = e.out
                /\ pc' = e.pc
                /\ raised' = IF e.raised THEN raised \cup {"task_render_map"} ELSE raised
    /\ started' = Append(started, "task_render_map")
    /\ UNCHANGED <<dataset_gdf, loaded, queries, geocode_out, buffer_out, filter_out>>

\* mining_crew.kickoff(...) again in the same process: the dataset stays loaded
Kickoff ==
    /\ pc = "finished"
    /\ queries < MaxQueries
    /\ queries' = queries + 1
    /\ pc' = "task_geocode"
    /\ started' = <<>>
    /\ raised' = {}
    /\ geocode_out' = NoOutput
    /\ buffer_out' = NoOutput
    /\ filter_out' = NoOutput
    /\ render_out' = NoOutput
    /\ map_html' = NoMap
    /\ UNCHANGED <<dataset_gdf, loaded>>

Next == TaskGeocode \/ TaskBuffer \/ TaskFilter \/ TaskRenderMap \/ Kickoff

Spec == Init /\ [][Next]_vars

\* ------------------------------------------------------------ properties
Ran(task) == \E i \in 1..Len(started) : started[i] = task

IsErrorObject(v) == v.kind = "json" /\ HasKey(v.obj, "error")

IsPlaceRecord(v) ==
    /\ v.kind = "json"
    /\ HasKey(v.obj, "latitude") /\ HasKey(v.obj, "longitude") /\ HasKey(v.obj, "radius_km")

IsFeatureCollection(v) == v.kind = "json" /\ HasKey(v.obj, "features")

\* a buffer the filter can work on: a FeatureCollection whose first feature has a geometry
IsWellFormedBuffer(v) ==
    /\ IsFeatureCollection(v)
    /\ v.obj.features # <<>>
    /\ HasKey(v.obj.features[1], "geometry")

\* row i of the dataset as loaded, in geographic coordinates, meets the buffer
RowMeetsBuffer(i) ==
    Intersects(ToGeographic(loaded.crs, loaded.rows[i].geometry),
               buffer_out.obj.features[1].geometry)

\* C1: the tasks start in the order geocode, buffer, filter, render, none skipped or
\* run twice, the buffer task starts only after the geocode task produced a
\* successful place record, and the filter task starts only after the buffer task
\* produced a successful buffer.
C1_StagesGated ==
    /\ \A i \in 1..Len(started) : i <= Len(Tasks) /\ started[i] = Tasks[i]
    /\ Ran("task_buffer") => (IsPlaceRecord(geocode_out) /\ "task_geocode" \notin raised)
    /\ Ran("task_filter") => (IsWellFormedBuffer(buffer_out) /\ "task_buffer" \notin raised)

\* C2: once a stage has returned a structured error object, no later stage is started.
C2_ErrorShortCircuits ==
    /\ IsErrorObject(geocode_out) => ~Ran("task_buffer")
    /\ IsErrorObject(buffer_out) => ~Ran("task_filter")
    /\ IsErrorObject(filter_out) => ~Ran("task_render_map")

\* C3: no stage raises an exception: every tool call returns a value, so no run of
\* the crew crashes and no task is left without its tool's result.
C3_NoStageRaises == raised = {} /\ pc # "crashed"

\* C4: when the filter stage yielded an error object, the finished pipeline has not
\* rendered a map (whose match layer would be missing as for a query without matches).
C4_FilterErrorIsExplicit ==
    (pc = "finished" /\ IsErrorObject(filter_out)) => ~map_html.saved

\* C5: for a place record whose radius_km is not strictly positive the buffer stage
\* produces no buffer FeatureCollection but an InvalidRadiusError.
C5_NonPositiveRadiusRejected ==
    (Ran("task_buffer") /\ IsPlaceRecord(geocode_out) /\ geocode_out.obj.radius_km <= 0)
        => /\ ~IsFeatureCollection(buffer_out)
           /\ IsErrorObject(buffer_out)
           /\ buffer_out.obj.error = <<"InvalidRadiusError">>

\* C6: the buffer stage is run only on a geocoder record that has latitude, longitude
\* and a positive radius_km.
C6_PlaceRecordValidated ==
    Ran("task_buffer") => (IsPlaceRecord(geocode_out) /\ geocode_out.obj.radius_km > 0)

\* C7: a filter stage given a buffer without features returns a MalformedBufferError
\* result, and the render stage is not started after it.
C7_MalformedBufferIsFailure ==
    (Ran("task_filter") /\ IsFeatureCollection(buffer_out) /\ buffer_out.obj.features = <<>>)
        => /\ IsErrorObject(filter_out)
           /\ filter_out.obj.error = <<"MalformedBufferError">>
           /\ ~Ran("task_render_map")

\* C8: when no dataset feature meets a well-formed buffer, the filter stage returns
\* a FeatureCollection without features (not an error object); and a pipeline
\* whose filter stage returned an empty match set does not crash, and finishes with
\* the map saved without a match overlay.
C8_EmptyMatchIsSuccess ==
    /\ ( /\ Ran("task_filter")
         /\ IsWellFormedBuffer(buffer_out)
         /\ loaded.crs # "None"
         /\ \A i \in 1..Len(loaded.rows) : ~RowMeetsBuffer(i) )
       => ( /\ IsFeatureCollection(filter_out)
            /\ filter_out.obj.features = <<>>
            /\ ~IsErrorObject(filter_out) )
    /\ (IsFeatureCollection(filter_out) /\ filter_out.obj.features = <<>>)
       => ( /\ pc # "crashed"
            /\ raised = {}
            /\ pc = "finished" => ( /\ map_html.saved
                                    /\ map_html.layers = {"Search Buffer"}
                                    /\ render_out = Text(map_html.file) ) )

\* a finished query over a non-empty dataset whose filter stage found no match
C8_Witness ==
    /\ pc = "finished"
    /\ Len(loaded.rows) > 0
    /\ IsFeatureCollection(filter_out)
    /\ filter_out.obj.features = <<>>
    /\ ~buffer_out.obj.features[1].geometry.empty

C10_DatasetNeverMutated == dataset_gdf = loaded

\* a second query whose filter ran on dataset_gdf itself (no reprojection) and
\* returned a match whose numeric attribute went out as a string
C10_Witness ==
    /\ queries = 2
    /\ Ran("task_filter")
    /\ loaded.crs = "EPSG:4326"
    /\ IsFeatureCollection(filter_out)
    /\ Len(filter_out.obj.features) > 0
    /\ filter_out.obj.features[1].properties.HASDATUM.type = "string"
    /\ loaded.rows[filter_out.obj.features[1].id + 1].HASDATUM.dtype = "float64"

====
